---------------------------- MODULE Spec2Model ----------------------------
(***************************************************************************)
(* A model of utils/code_analyzer.py (PythonCodeAnalyzer).                 *)
(*                                                                         *)
(* An analyzer instance holds the line view of the source text             *)
(* (self.lines) and the parsed tree (self.tree).  The tree is kept as the  *)
(* sequence of its definition nodes in source order; every node carries    *)
(* its depth in the tree and the index of the definition that encloses it, *)
(* so that ast.walk (breadth first) and ast.walk(node) (the sub-tree) are  *)
(* computed the way the library computes them.                             *)
(*                                                                         *)
(* A text is a sequence of lines ("\n".join / split("\n") of lines that    *)
(* hold no line break); a line is a record                                 *)
(*    [no |-> its 1-based number in the file, len |-> its length,          *)
(*     tq |-> whether it contains a triple quote, marker |-> 0]            *)
(* and the synthetic continuation line written by the chunker is           *)
(*    [no |-> 0, len |-> ..., tq |-> FALSE, marker |-> N].                 *)
(* A Python dict is a sequence of [key, value] records in insertion order. *)
(***************************************************************************)
EXTENDS Integers, Sequences, FiniteSets, TLC

VARIABLES lines,    \* self.lines: the line view of the source text
          tree,     \* self.tree: the definition nodes, in source order
          call,     \* the last operation called, with its parameters
          result,   \* what that call returned
          locals    \* the local variables of that call when it returned

vars == <<lines, tree, call, result, locals>>

-----------------------------------------------------------------------------
(* Bounds of the model *)

\* the largest depth handed to extract_functions_with_dependencies
MaxDepth == 3
\* the largest number of distinct names one function body calls
MaxCalls == 2

\* the largest number of lines of the function that is chunked
MaxLines == 4
\* the largest max_tokens handed to chunk_by_function
MaxTokens == 28
\* the number of (blank) lines of the file before the first function
LinesBefore == 7

\* the names a file of the dependency family defines and calls
FuncNames == {"helper", "process", "main"}
CallNames == FuncNames \cup {"print"}
\* the names asked for; print is never defined
AskedNames == {"main", "helper", "print"}

NoDocstring == "None"

-----------------------------------------------------------------------------
(* Python helpers *)

Range(s) == {s[i] : i \in 1..Len(s)}

\* a variant in which an existing key keeps its value
DictSetKeepFirst(d, k, v) ==
    IF \E i \in 1..Len(d) : d[i].key = k
    THEN d
    ELSE Append(d, [key |-> k, value |-> v])

\* d[k] = v on a dict: an existing key keeps its place, a new key is appended
DictSet(d, k, v) ==
    IF \E i \in 1..Len(d) : d[i].key = k
    THEN [i \in 1..Len(d) |-> IF d[i].key = k THEN [key |-> k, value |-> v] ELSE d[i]]
    ELSE Append(d, [key |-> k, value |-> v])

DictKeys(d) == {d[i].key : i \in 1..Len(d)}

DictGet(d, k) == (CHOOSE e \in Range(d) : e.key = k).value

\* "\n".join(ls)[a:b] as lines: the slice of a sequence, 1-based and inclusive
Slice(s, a, b) == [i \in 1..(IF b >= a THEN b - a + 1 ELSE 0) |-> s[a + i - 1]]

RECURSIVE SumLen(_)
SumLen(ls) == IF Len(ls) = 0 THEN 0 ELSE Head(ls).len + SumLen(Tail(ls))

\* len("\n".join(ls))
TextLen(ls) == IF Len(ls) = 0 THEN 0 ELSE SumLen(ls) + Len(ls) - 1

-----------------------------------------------------------------------------
(* The tree *)

RECURSIVE IndicesAtDepth(_, _, _)
IndicesAtDepth(t, d, i) ==
    IF i > Len(t) THEN <<>>
    ELSE (IF t[i].depth = d THEN <<i>> ELSE <<>>) \o IndicesAtDepth(t, d, i + 1)

TreeDepth(t) == IF Len(t) = 0 THEN 0
                ELSE CHOOSE d \in {t[i].depth : i \in 1..Len(t)} :
                        \A i \in 1..Len(t) : t[i].depth <= d

RECURSIVE WalkFrom(_, _)
WalkFrom(t, d) ==
    IF d > TreeDepth(t) THEN <<>> ELSE IndicesAtDepth(t, d, 1) \o WalkFrom(t, d + 1)

\* ast.walk(self.tree): breadth first, the nodes of one level in source order
Walk(t) == WalkFrom(t, 1)

RECURSIVE IsWithin(_, _, _)
\* node j lies in the sub-tree of node i
IsWithin(t, j, i) ==
    IF j = i THEN TRUE
    ELSE IF j = 0 THEN FALSE
    ELSE IsWithin(t, t[j].parent, i)

\* ast.walk(node): the nodes of the sub-tree of node i
SubTree(t, i) == {j \in 1..Len(t) : IsWithin(t, j, i)}

IsFunctionDef(node) == node.type = "FunctionDef"


-----------------------------------------------------------------------------
(* _parse_function_node and extract_functions *)

\* the parameter names a def declares, in declaration order:
\* def f(posonly, /, args, *vararg, kwonly, **kwarg)
DeclaredParameters(node) ==
    node.args.posonlyargs \o node.args.args \o node.args.vararg
        \o node.args.kwonlyargs \o node.args.kwarg

\* a variant that collects the parameters of every kind
ParseFunctionNodeAllParameters(node, ls) ==
    LET start_line == node.lineno
        end_line   == IF node.end_lineno = 0 THEN start_line ELSE node.end_lineno
    IN  [name       |-> node.name,
         code       |-> Slice(ls, start_line, end_line),
         start_line |-> start_line,
         end_line   |-> end_line,
         args       |-> DeclaredParameters(node),
         docstring  |-> node.docstring]

\* _parse_function_node(node): the FunctionInfo of a definition node
ParseFunctionNode(node, ls) ==
    LET start_line == node.lineno
        end_line   == IF node.end_lineno = 0 THEN start_line ELSE node.end_lineno
    IN  [name       |-> node.name,
         code       |-> Slice(ls, start_line, end_line),
         start_line |-> start_line,
         end_line   |-> end_line,
         args       |-> node.args.args,
         docstring  |-> node.docstring]

\* a variant that forgets the name filter
ExtractMatchesAnyName(node, function_names) ==
    IsFunctionDef(node)

\* a variant that takes an empty request for a request for everything
ExtractMatchesEmptyMeansAll(node, function_names) ==
    IsFunctionDef(node) /\ (function_names = {} \/ node.name \in function_names)

\* the condition of the loop of extract_functions, line 54
ExtractMatches(node, function_names) ==
    IsFunctionDef(node) /\ node.name \in function_names

RECURSIVE ExtractLoop(_, _, _, _, _)
ExtractLoop(t, ls, function_names, walk, extracted) ==
    IF Len(walk) = 0 THEN extracted
    ELSE LET node == t[Head(walk)]
         IN  ExtractLoop(t, ls, function_names, Tail(walk),
                 IF ExtractMatches(node, function_names)
                 THEN DictSet(extracted, node.name, ParseFunctionNode(node, ls))
                 ELSE extracted)

\* extract_functions(function_names)
ExtractFunctions(t, ls, function_names) ==
    ExtractLoop(t, ls, function_names, Walk(t), <<>>)

-----------------------------------------------------------------------------
(* _build_call_graph *)

\* a variant that records attribute calls only
CalledByCallAttributeOnly(c) ==
    IF c.func = "Attribute" THEN {c.attr} ELSE {}

\* a variant that records the receiver of an attribute call as well
CalledByCallWithReceiver(c) ==
    IF c.func = "Name" THEN {c.id}
    ELSE IF c.func = "Attribute" THEN {c.attr, c.value}
    ELSE {}

\* the name one Call node adds to called_functions, lines 305-310
CalledByCall(c) ==
    IF c.func = "Name" THEN {c.id}
    ELSE IF c.func = "Attribute" THEN {c.attr}
    ELSE {}

\* the inner loop: every Call node of the sub-tree of node i
CalledFunctions(t, i) ==
    UNION {CalledByCall(c) : c \in UNION {t[j].calls : j \in SubTree(t, i)}}

RECURSIVE CallGraphLoop(_, _, _)
CallGraphLoop(t, walk, call_graph) ==
    IF Len(walk) = 0 THEN call_graph
    ELSE LET i == Head(walk)
         IN  CallGraphLoop(t, Tail(walk),
                 IF IsFunctionDef(t[i])
                 THEN DictSet(call_graph, t[i].name, CalledFunctions(t, i))
                 ELSE call_graph)

\* _build_call_graph()
BuildCallGraph(t) == CallGraphLoop(t, Walk(t), <<>>)

\* call_graph.get(func, set())
CallGraphGet(call_graph, func) ==
    IF func \in DictKeys(call_graph) THEN DictGet(call_graph, func) ELSE {}

-----------------------------------------------------------------------------
(* extract_functions_with_dependencies *)

\* lines 81-84: the neighbours of the current level
NextLevel(call_graph, current_level) ==
    UNION {CallGraphGet(call_graph, func) : func \in current_level}

\* a variant that never advances current_level
ExpandRoundNoAdvance(call_graph, st) ==
    LET next_level == NextLevel(call_graph, st.current_level)
    IN  [to_extract    |-> st.to_extract \cup next_level,
         current_level |-> st.current_level,
         levels        |-> Append(st.levels, st.current_level)]

\* a variant that assigns to_extract instead of updating it
ExpandRoundAssign(call_graph, st) ==
    LET next_level == NextLevel(call_graph, st.current_level)
    IN  [to_extract    |-> next_level,
         current_level |-> next_level,
         levels        |-> Append(st.levels, next_level)]

\* one round of the loop, lines 81-86 (levels records current_level per round)
ExpandRound(call_graph, st) ==
    LET next_level == NextLevel(call_graph, st.current_level)
    IN  [to_extract    |-> st.to_extract \cup next_level,
         current_level |-> next_level,
         levels        |-> Append(st.levels, next_level)]

RECURSIVE ExpandLoop(_, _, _)

\* a variant that runs one round too many
ExpandLoopOneMore(call_graph, st, depth) ==
    IF depth < 0 THEN st
    ELSE ExpandLoop(call_graph, ExpandRound(call_graph, st), depth - 1)

\* a variant that stops as soon as the current level is empty
ExpandLoopUntilEmpty(call_graph, st, depth) ==
    IF depth <= 0 \/ st.current_level = {} THEN st
    ELSE ExpandLoop(call_graph, ExpandRound(call_graph, st), depth - 1)

\* for _ in range(depth)
ExpandLoop(call_graph, st, depth) ==
    IF depth <= 0 THEN st
    ELSE ExpandLoop(call_graph, ExpandRound(call_graph, st), depth - 1)

\* lines 74-86: the locals of extract_functions_with_dependencies at line 88
Expand(t, root_functions, depth) ==
    LET call_graph == BuildCallGraph(t)
        st == ExpandLoop(call_graph,
                         [to_extract    |-> root_functions,
                          current_level |-> root_functions,
                          levels        |-> <<root_functions>>],
                         depth)
    IN  [call_graph    |-> call_graph,
         to_extract    |-> st.to_extract,
         current_level |-> st.current_level,
         levels        |-> st.levels]

\* extract_functions_with_dependencies(root_functions, depth)
ExtractFunctionsWithDependencies(t, ls, root_functions, depth) ==
    ExtractFunctions(t, ls, Expand(t, root_functions, depth).to_extract)

-----------------------------------------------------------------------------
(* chunk_by_function and _split_large_function *)

\* the truth value of an Optional[str]
Truthy(docstring) == docstring # NoDocstring /\ docstring # ""

\* function_info.docstring or ""
DocstringOrEmpty(docstring) == IF Truthy(docstring) THEN docstring ELSE ""

\* len(text) // 4
EstimatedTokens(text) == TextLen(text) \div 4

\* len(str(n)) for a line number
Digits(n) == IF n < 10 THEN 1 ELSE IF n < 100 THEN 2 ELSE 3

\* f"    # ... (continuation from line {n})", line 235
MarkerLine(n) == [no |-> 0, len |-> 35 + Digits(n), tq |-> FALSE, marker |-> n]

\* f"func_{name}" and f"func_{name}_part{chunk_count}"
FuncId(name) == "func_" \o name
PartId(name, chunk_count) == "func_" \o name \o "_part" \o ToString(chunk_count)

\* a variant with a strict comparison
FitsInOneChunkStrict(estimated_tokens, max_tokens) == estimated_tokens < max_tokens

\* line 139
FitsInOneChunk(estimated_tokens, max_tokens) == estimated_tokens <= max_tokens

\* lines 141-155: the chunk of a function that fits
WholeChunk(function_info) ==
    [id       |-> FuncId(function_info.name),
     text     |-> function_info.code,
     metadata |-> [type       |-> "function",
                   name       |-> function_info.name,
                   start_line |-> function_info.start_line,
                   end_line   |-> function_info.end_line,
                   args       |-> function_info.args,
                   docstring  |-> DocstringOrEmpty(function_info.docstring),
                   is_partial |-> FALSE]]

RECURSIVE ScanDocstring(_, _, _, _)
\* lines 188-198; i is the 0-based index of the line looked at
ScanDocstring(ls, i, in_docstring, docstring_lines) ==
    IF i >= Len(ls)
    THEN [docstring_lines |-> docstring_lines, code_start_idx |-> 1]
    ELSE LET line == ls[i + 1]
         IN  IF line.tq
             THEN IF ~in_docstring
                  THEN ScanDocstring(ls, i + 1, TRUE, Append(docstring_lines, line))
                  ELSE [docstring_lines |-> Append(docstring_lines, line),
                        code_start_idx  |-> i + 1]
             ELSE IF in_docstring
                  THEN ScanDocstring(ls, i + 1, TRUE, Append(docstring_lines, line))
                  ELSE ScanDocstring(ls, i + 1, FALSE, docstring_lines)

\* lines 181-198
ExtractDocstringLines(function_info, ls) ==
    IF Truthy(function_info.docstring)
    THEN ScanDocstring(ls, 1, FALSE, <<>>)
    ELSE [docstring_lines |-> <<>>, code_start_idx |-> 1]

\* a variant that names the chunk before counting it
ClosedChunkIdBeforeCount(function_info, chunk_count, current_chunk_lines, current_chunk_start) ==
    [id       |-> PartId(function_info.name, chunk_count - 1),
     text     |-> current_chunk_lines,
     metadata |-> [type       |-> "function",
                   name       |-> function_info.name,
                   start_line |-> current_chunk_start,
                   end_line   |-> current_chunk_start + Len(current_chunk_lines) - 1,
                   args       |-> function_info.args,
                   docstring  |-> DocstringOrEmpty(function_info.docstring),
                   is_partial |-> TRUE,
                   part       |-> chunk_count]]

\* lines 213-230: a chunk closed inside the loop
ClosedChunk(function_info, chunk_count, current_chunk_lines, current_chunk_start) ==
    [id       |-> PartId(function_info.name, chunk_count),
     text     |-> current_chunk_lines,
     metadata |-> [type       |-> "function",
                   name       |-> function_info.name,
                   start_line |-> current_chunk_start,
                   end_line   |-> current_chunk_start + Len(current_chunk_lines) - 1,
                   args       |-> function_info.args,
                   docstring  |-> DocstringOrEmpty(function_info.docstring),
                   is_partial |-> TRUE,
                   part       |-> chunk_count]]

\* lines 245-261: the final chunk
FinalChunk(function_info, chunk_count, current_chunk_lines, current_chunk_start) ==
    [id       |-> PartId(function_info.name, chunk_count),
     text     |-> current_chunk_lines,
     metadata |-> [type        |-> "function",
                   name        |-> function_info.name,
                   start_line  |-> current_chunk_start,
                   end_line    |-> function_info.end_line,
                   args        |-> function_info.args,
                   docstring   |-> DocstringOrEmpty(function_info.docstring),
                   is_partial  |-> TRUE,
                   part        |-> chunk_count,
                   total_parts |-> chunk_count]]

\* a variant that starts the new chunk without the signature
ContinuationLinesNoSignature(signature, n, line) == <<MarkerLine(n), line>>

\* a variant that cuts the signature of a new chunk to half its length
ContinuationLinesCutSignature(signature, n, line) ==
    <<[signature EXCEPT !.len = @ \div 2], MarkerLine(n), line>>

\* lines 233-237: the buffer a new chunk starts with
ContinuationLines(signature, n, line) == <<signature, MarkerLine(n), line>>

\* lines 206-240: one iteration of the splitting loop, i 0-based
SplitStep(function_info, max_tokens, ls, i, st) ==
    LET line == ls[i + 1]
        test_chunk == Append(st.current_chunk_lines, line)
        estimated_tokens == EstimatedTokens(test_chunk)
    IN  IF estimated_tokens > max_tokens /\ Len(st.current_chunk_lines) > 1
        THEN LET chunk_count == st.chunk_count + 1
             IN  [chunks |-> Append(st.chunks,
                        ClosedChunk(function_info, chunk_count,
                                    st.current_chunk_lines, st.current_chunk_start)),
                  current_chunk_lines |->
                        ContinuationLines(ls[1],
                            st.current_chunk_start + Len(st.current_chunk_lines), line),
                  current_chunk_start |-> function_info.start_line + i,
                  chunk_count |-> chunk_count]
        ELSE [st EXCEPT !.current_chunk_lines = Append(@, line)]

RECURSIVE SplitLoop(_, _, _, _, _)
\* for i in range(code_start_idx, len(lines))
SplitLoop(function_info, max_tokens, ls, i, st) ==
    IF i >= Len(ls) THEN st
    ELSE SplitLoop(function_info, max_tokens, ls, i + 1,
                   SplitStep(function_info, max_tokens, ls, i, st))

\* _split_large_function(function_info, max_tokens)
SplitLargeFunction(function_info, max_tokens) ==
    LET ls == function_info.code
        signature == ls[1]
        doc == ExtractDocstringLines(function_info, ls)
        st == SplitLoop(function_info, max_tokens, ls, doc.code_start_idx,
                  [chunks |-> <<>>,
                   current_chunk_lines |-> <<signature>> \o doc.docstring_lines,
                   current_chunk_start |-> function_info.start_line,
                   chunk_count |-> 0])
    IN  IF Len(st.current_chunk_lines) > 1
        THEN Append(st.chunks,
                    FinalChunk(function_info, st.chunk_count + 1,
                               st.current_chunk_lines, st.current_chunk_start))
        ELSE st.chunks

\* lines 134-159: the chunks of one function definition
ChunksOfNode(node, ls, max_tokens) ==
    LET function_info == ParseFunctionNode(node, ls)
        estimated_tokens == EstimatedTokens(function_info.code)
    IN  IF FitsInOneChunk(estimated_tokens, max_tokens)
        THEN <<WholeChunk(function_info)>>
        ELSE SplitLargeFunction(function_info, max_tokens)

RECURSIVE ChunkLoop(_, _, _, _, _)
ChunkLoop(t, ls, max_tokens, walk, chunks) ==
    IF Len(walk) = 0 THEN chunks
    ELSE LET node == t[Head(walk)]
         IN  ChunkLoop(t, ls, max_tokens, Tail(walk),
                 IF IsFunctionDef(node)
                 THEN chunks \o ChunksOfNode(node, ls, max_tokens)
                 ELSE chunks)

\* chunk_by_function(max_tokens)
ChunkByFunction(t, ls, max_tokens) == ChunkLoop(t, ls, max_tokens, Walk(t), <<>>)

-----------------------------------------------------------------------------
(* The files of the dependency family: three definitions of two lines     *)
(* each, the third either at top level or nested in the second.           *)

Line(n, l, q) == [no |-> n, len |-> l, tq |-> q, marker |-> 0]

NameCall(n) == [func |-> "Name", id |-> n, attr |-> "", value |-> ""]
AttributeCall(r, n) == [func |-> "Attribute", id |-> "", attr |-> n, value |-> r]

\* ast.arguments: the parameter names by kind (vararg and kwarg hold one
\* name or none)
FullArguments(posonlyargs, a, vararg, kwonlyargs, kwarg) ==
    [posonlyargs |-> posonlyargs, args |-> a, vararg |-> vararg,
     kwonlyargs |-> kwonlyargs, kwarg |-> kwarg]

\* the arguments of def f(a1, a2, ...)
Arguments(a) == FullArguments(<<>>, a, <<>>, <<>>, <<>>)

DefNode(type, name, depth, parent, lineno, end_lineno, a, docstring, calls) ==
    [type |-> type, name |-> name, depth |-> depth, parent |-> parent,
     lineno |-> lineno, end_lineno |-> end_lineno, args |-> Arguments(a),
     docstring |-> docstring, calls |-> calls]

\* a def whose signature has parameters of every kind
DefNodeWith(node, arguments) == [node EXCEPT !.args = arguments]

CallSets == {cs \in SUBSET CallNames : Cardinality(cs) <= MaxCalls}

\* the names of the three definitions, in source order
NameLayouts == { <<"helper", "process", "main">>, <<"helper", "main", "main">> }

\* flat: three top-level defs; nested: the third def inside the second;
\* async: the first is an async def; attr: calls written receiver.name(...)
Shapes == {"flat", "nested", "async", "attr"}

CallsOf(shape, cs) ==
    IF shape = "attr" THEN {AttributeCall("self", n) : n \in cs}
    ELSE {NameCall(n) : n \in cs}

DepsTree(names, shape, c1, c2, c3) ==
    LET nested == shape = "nested"
    IN  << DefNode(IF shape = "async" THEN "AsyncFunctionDef" ELSE "FunctionDef",
                   names[1], 1, 0, 1, 2, <<"x">>, NoDocstring, CallsOf(shape, c1)),
           DefNode("FunctionDef", names[2], 1, 0, 3, IF nested THEN 6 ELSE 4,
                   <<"y">>, NoDocstring, CallsOf(shape, c2)),
           DefNode("FunctionDef", names[3], IF nested THEN 2 ELSE 1,
                   IF nested THEN 2 ELSE 0,
                   IF nested THEN 4 ELSE 5, IF nested THEN 5 ELSE 6,
                   <<"z">>, NoDocstring, CallsOf(shape, c3)) >>

DepsLines == [n \in 1..6 |-> Line(n, 16, FALSE)]

NoCall == [op |-> "none", names |-> {}, depth |-> 0, max_tokens |-> 0]

SmallCallSets == {{}, {"helper"}, {"main"}}

\* every call set on three distinct top-level defs, and every shape and
\* layout with at most one call per def
DepsFiles ==
    {DepsTree(<<"helper", "process", "main">>, "flat", c1, c2, c3) :
        c1 \in CallSets, c2 \in CallSets, c3 \in CallSets}
    \cup
    {DepsTree(f[1], f[2], f[3], f[4], f[5]) :
        f \in NameLayouts \X Shapes \X SmallCallSets \X SmallCallSets \X SmallCallSets}

Init ==
    /\ tree \in DepsFiles
    /\ lines = DepsLines
    /\ call = NoCall
    /\ result = <<>>
    /\ locals = <<>>

\* analyzer.extract_functions(function_names)
CallExtractFunctions ==
    /\ call.op = "none"
    /\ \E function_names \in SUBSET AskedNames :
        /\ call' = [op |-> "extract_functions", names |-> function_names,
                    depth |-> 0, max_tokens |-> 0]
        /\ result' = ExtractFunctions(tree, lines, function_names)
        /\ locals' = <<>>
        /\ UNCHANGED <<lines, tree>>

\* analyzer.extract_functions_with_dependencies(root_functions, depth)
CallExtractFunctionsWithDependencies ==
    /\ call.op = "none"
    /\ \E root_functions \in SUBSET AskedNames, depth \in 0..MaxDepth :
        /\ call' = [op |-> "extract_functions_with_dependencies",
                    names |-> root_functions, depth |-> depth, max_tokens |-> 0]
        /\ locals' = Expand(tree, root_functions, depth)
        /\ result' = ExtractFunctions(tree, lines, locals'.to_extract)
        /\ UNCHANGED <<lines, tree>>

\* the caller has taken the value returned; the instance is ready for the
\* next call
Return ==
    /\ call.op \notin {"none", "new", "__init__"}
    /\ call' = NoCall
    /\ result' = <<>>
    /\ locals' = <<>>
    /\ UNCHANGED <<lines, tree>>

Next == CallExtractFunctions \/ CallExtractFunctionsWithDependencies \/ Return

Spec == Init /\ [][Next]_vars

-----------------------------------------------------------------------------
(* Properties of the dependency resolver and the extractor *)

Expanding == call.op = "extract_functions_with_dependencies"

\* n is a callee of m in the call graph g
IsEdge(g, m, n) == \E i \in 1..Len(g) : g[i].key = m /\ n \in g[i].value

GraphNames(g) == DictKeys(g) \cup UNION {g[i].value : i \in 1..Len(g)}

RECURSIVE ReachableWithin(_, _, _)
\* the names reachable from a seed by a path of at most d edges of g
ReachableWithin(g, seeds, d) ==
    IF d = 0 THEN seeds
    ELSE LET r == ReachableWithin(g, seeds, d - 1)
         IN  r \cup {n \in GraphNames(g) : \E m \in r : IsEdge(g, m, n)}

\* C1: the set handed to extraction by extract_functions_with_dependencies
\* (roots, depth) is exactly the set of names reachable from some root by a
\* path of at most depth call-graph edges.
C1_ExpandIsBoundedReachability ==
    Expanding =>
        locals.to_extract = ReachableWithin(locals.call_graph, call.names, call.depth)

\* a chain main -> process -> helper -> print expanded to depth 2: helper
\* (2 edges) is in, print (3 edges) is out
C1_Witness ==
    /\ Expanding /\ call.names = {"main"} /\ call.depth = 2
    /\ locals.to_extract = {"main", "process", "helper"}
    /\ "print" \in ReachableWithin(locals.call_graph, call.names, 3)

\* C2: with depth = 0 no round runs and the expanded set is the seed set.
C2_DepthZeroIsSeeds ==
    (Expanding /\ call.depth = 0) =>
        /\ locals.to_extract = call.names
        /\ Len(locals.levels) = 1

\* depth 0 on a seed that does have callees
C2_Witness ==
    /\ Expanding /\ call.depth = 0 /\ call.names = {"main"}
    /\ CallGraphGet(locals.call_graph, "main") = {"process", "print"}
    /\ locals.to_extract = {"main"}

\* the set the loop of lines 77-86 ends with after d rounds on the same
\* graph and seeds
ExpandedTo(d) ==
    ExpandLoop(locals.call_graph,
               [to_extract |-> call.names, current_level |-> call.names,
                levels |-> <<call.names>>], d).to_extract

\* C3: the expanded set grows with depth, and once one more round adds
\* nothing no larger depth adds anything.
C3_MonotoneAndStable ==
    Expanding =>
        /\ locals.to_extract \subseteq ExpandedTo(call.depth + 1)
        /\ locals.to_extract = ExpandedTo(call.depth + 1) =>
              \A d \in call.depth..(MaxDepth + 2) : ExpandedTo(d) = locals.to_extract

\* the fixed point is reached at depth 2 after two rounds that each added a name
C3_Witness ==
    /\ Expanding /\ call.depth = 2
    /\ ExpandedTo(0) # ExpandedTo(1) /\ ExpandedTo(1) # locals.to_extract
    /\ locals.to_extract = ExpandedTo(3)

ScenarioTree ==
    DepsTree(<<"helper", "process", "main">>, "flat", {}, {"helper"}, {"process"})

\* C4: helper calls nothing, process calls helper, main calls process: from
\* {main}, depth 1 gives {main, process} and depth 2 gives {main, process,
\* helper}, and the mapping returned is keyed by exactly those names.
C4_Scenario ==
    (Expanding /\ tree = ScenarioTree /\ call.names = {"main"}) =>
        /\ call.depth = 1 =>
              /\ locals.to_extract = {"main", "process"}
              /\ DictKeys(result) = {"main", "process"}
        /\ call.depth = 2 =>
              /\ locals.to_extract = {"main", "process", "helper"}
              /\ DictKeys(result) = {"main", "process", "helper"}

C4_Witness ==
    /\ Expanding /\ tree = ScenarioTree /\ call.names = {"main"} /\ call.depth = 2
    /\ Len(result) = 3

\* the function definitions (ast.FunctionDef nodes) of the file
FunctionDefs == {i \in 1..Len(tree) : IsFunctionDef(tree[i])}

\* C5: extract_functions(S) returns a mapping whose keys are in S, each
\* value being the record of a function definition of that name; every name
\* of S that a function definition of the file bears is a key.
C5_ExtractOnlyAndAllRequested ==
    call.op = "extract_functions" =>
        /\ DictKeys(result) \subseteq call.names
        /\ \A e \in Range(result) :
              /\ e.value.name = e.key
              /\ \E i \in FunctionDefs : e.value = ParseFunctionNode(tree[i], lines)
        /\ \A i, j \in 1..Len(result) : result[i].key = result[j].key => i = j
        /\ \A i \in FunctionDefs :
              tree[i].name \in call.names => tree[i].name \in DictKeys(result)

\* a request for a defined and an undefined name, on a file that defines
\* other functions too
C5_Witness ==
    /\ call.op = "extract_functions" /\ call.names = {"main", "print"}
    /\ DictKeys(result) = {"main"}
    /\ \E i \in FunctionDefs : tree[i].name = "helper"

-----------------------------------------------------------------------------
(* The files of the chunking family: after LinesBefore blank lines, a      *)
(* function f of 1..MaxLines lines, short or long, any of its body lines   *)
(* holding a triple quote, with or without a docstring; then a two-line    *)
(* function g.                                                             *)

\* a short line (def f(): "a") and a long one
LineLens == {12, 44}

Docstrings == {NoDocstring, "", "doc"}

RECURSIVE NumberLines(_, _)
\* the lines of a text numbered from n + 1 (the content of a line is
\* identified with its place in the file)
NumberLines(ls, n) ==
    IF Len(ls) = 0 THEN <<>>
    ELSE <<Line(n + 1, Head(ls)[1], Head(ls)[2])>> \o NumberLines(Tail(ls), n + 1)

ChunkLines(sig, body) ==
    NumberLines([i \in 1..LinesBefore |-> <<0, FALSE>>]
                \o <<<<sig, FALSE>>>> \o body
                \o << <<12, FALSE>>, <<12, FALSE>> >>, 0)

ChunkTree(n, docstring) ==
    << DefNode("FunctionDef", "f", 1, 0, LinesBefore + 1, LinesBefore + n,
               <<>>, docstring, {}),
       DefNode("FunctionDef", "g", 1, 0, LinesBefore + n + 1, LinesBefore + n + 2,
               <<"a">>, NoDocstring, {}) >>

InitChunk ==
    /\ \E n \in 1..MaxLines, sig \in LineLens, docstring \in Docstrings :
          \E body \in [1..(n - 1) -> LineLens \X BOOLEAN] :
              /\ lines = ChunkLines(sig, body)
              /\ tree = ChunkTree(n, docstring)
    /\ call = NoCall
    /\ result = <<>>
    /\ locals = <<>>

\* a variant in which splitting binds the lines of the function it splits
\* to self.lines
ChunkByFunctionReturnsRebinding(max_tokens) ==
    /\ call' = [op |-> "chunk_by_function", names |-> {}, depth |-> 0,
                max_tokens |-> max_tokens]
    /\ result' = ChunkByFunction(tree, lines, max_tokens)
    /\ locals' = <<>>
    /\ tree' = tree
    /\ lines' = IF \E i \in 1..Len(tree) :
                      /\ IsFunctionDef(tree[i])
                      /\ ~FitsInOneChunk(EstimatedTokens(ParseFunctionNode(tree[i], lines).code),
                                         max_tokens)
                THEN ParseFunctionNode(
                         tree[CHOOSE i \in 1..Len(tree) :
                                /\ IsFunctionDef(tree[i])
                                /\ ~FitsInOneChunk(
                                       EstimatedTokens(ParseFunctionNode(tree[i], lines).code),
                                       max_tokens)], lines).code
                ELSE lines

ChunkByFunctionReturns(max_tokens) ==
    /\ call' = [op |-> "chunk_by_function", names |-> {}, depth |-> 0,
                max_tokens |-> max_tokens]
    /\ result' = ChunkByFunction(tree, lines, max_tokens)
    /\ locals' = <<>>
    /\ UNCHANGED <<lines, tree>>

\* analyzer.chunk_by_function(max_tokens)
CallChunkByFunction ==
    /\ call.op = "none"
    /\ \E max_tokens \in 1..MaxTokens : ChunkByFunctionReturns(max_tokens)

NextChunk == CallChunkByFunction \/ Return

SpecChunk == InitChunk /\ [][NextChunk]_vars

\* the longest run of lines after the signature that may be a docstring: up
\* to the last line holding a triple quote, and the first body line at least
LongestPreamble(code) ==
    LET last == CHOOSE k \in 1..Len(code) :
                    /\ k = 1 \/ k = 2 \/ code[k].tq
                    /\ \A j \in (k + 1)..Len(code) : j > 2 /\ ~code[j].tq
    IN  SubSeq(code, 1, last)

\* max_tokens is no pathological budget for function i: the signature with
\* its docstring preamble, a continuation marker and any one line of the
\* function fit in it together
RoomyFor(i, max_tokens) ==
    LET code == ParseFunctionNode(tree[i], lines).code
    IN  \A k \in 1..Len(code) :
            EstimatedTokens(LongestPreamble(code)
                            \o <<MarkerLine(tree[i].end_lineno), code[k]>>) <= max_tokens

\* analyzer.chunk_by_function(max_tokens) with a budget that is roomy for
\* every function of the file
CallChunkByFunctionRoomy ==
    /\ call.op = "none"
    /\ \E max_tokens \in 1..MaxTokens :
        /\ \A i \in 1..Len(tree) : IsFunctionDef(tree[i]) => RoomyFor(i, max_tokens)
        /\ ChunkByFunctionReturns(max_tokens)

NextChunkRoomy == CallChunkByFunctionRoomy \/ Return

SpecChunkRoomy == InitChunk /\ [][NextChunkRoomy]_vars

-----------------------------------------------------------------------------
(* Properties of the chunker *)

Chunking == call.op = "chunk_by_function"

InfoOf(i) == ParseFunctionNode(tree[i], lines)

\* the function's estimated size exceeds max_tokens
IsLarge(i) == EstimatedTokens(InfoOf(i).code) > call.max_tokens

\* the chunks of the result that belong to the function called name
ChunksNamed(name) == SelectSeq(result, LAMBDA c : c.metadata.name = name)

\* C6: a function whose estimated size is at most max_tokens (the boundary
\* included) yields exactly one chunk: is_partial false, id func_<name>, the
\* verbatim code as text, no part and no total_parts.
C6_SmallFunctionOneChunk ==
    Chunking =>
        \A i \in FunctionDefs :
            ~IsLarge(i) =>
                LET cs == ChunksNamed(tree[i].name)
                IN  /\ Len(cs) = 1
                    /\ cs[1].metadata.is_partial = FALSE
                    /\ cs[1].id = FuncId(tree[i].name)
                    /\ cs[1].text = InfoOf(i).code
                    /\ DOMAIN cs[1].metadata \cap {"part", "total_parts"} = {}

\* f of several lines whose estimated size is exactly max_tokens
C6_Witness ==
    /\ Chunking
    /\ tree[1].end_lineno > tree[1].lineno + 1
    /\ EstimatedTokens(InfoOf(1).code) = call.max_tokens
    /\ Len(ChunksNamed("f")) = 1

\* C7: a function whose estimated size exceeds max_tokens yields at least
\* two chunks, all partial, with part = 1, 2, ..., n in emission order;
\* only the last carries total_parts, which is n.
C7_LargeFunctionParts ==
    Chunking =>
        \A i \in FunctionDefs :
            IsLarge(i) =>
                LET cs == ChunksNamed(tree[i].name)
                IN  /\ Len(cs) >= 2
                    /\ \A k \in 1..Len(cs) :
                          /\ cs[k].metadata.is_partial = TRUE
                          /\ cs[k].metadata.part = k
                          /\ "total_parts" \in DOMAIN cs[k].metadata <=> k = Len(cs)
                    /\ cs[Len(cs)].metadata.total_parts = Len(cs)

\* C8: the first line of the text of every chunk is the first (signature)
\* line of the function the chunk belongs to.
C8_ChunkStartsWithSignature ==
    Chunking =>
        \A k \in 1..Len(result) :
            \E i \in FunctionDefs :
                /\ tree[i].name = result[k].metadata.name
                /\ Len(result[k].text) >= 1
                /\ result[k].text[1] = lines[tree[i].lineno]

\* f split into three chunks or more
C8_Witness ==
    /\ Chunking
    /\ Len(ChunksNamed("f")) >= 3
    /\ ChunksNamed("f")[3].text[1] = lines[tree[1].lineno]

\* a chunk's text without its first (signature) line and its marker line
StripContinuation(text) == SelectSeq(Tail(text), LAMBDA l : l.marker = 0)

RECURSIVE Reassembled(_, _)
\* the first chunk's text followed by the stripped texts of the later ones
Reassembled(cs, k) ==
    IF k > Len(cs) THEN <<>>
    ELSE (IF k = 1 THEN cs[1].text ELSE StripContinuation(cs[k].text))
         \o Reassembled(cs, k + 1)

\* C9: the chunks of a split function, with the repeated signature and the
\* marker removed from each chunk after the first, concatenate in part
\* order to the function's lines, each once and in order.
C9_ChunksCoverFunction ==
    Chunking =>
        \A i \in FunctionDefs :
            IsLarge(i) => Reassembled(ChunksNamed(tree[i].name), 1) = InfoOf(i).code

\* C10: the estimated size of every chunk returned is at most max_tokens.
C10_ChunksWithinLimit ==
    Chunking =>
        \A k \in 1..Len(result) : EstimatedTokens(result[k].text) <= call.max_tokens

\* C11: in the sequence returned by chunk_by_function every chunk has
\* end_line >= start_line, and every chunk's start_line is strictly greater
\* than the end_line of the chunk emitted before it.
C11_LineNumbersSequential ==
    Chunking =>
        /\ \A k \in 1..Len(result) :
              result[k].metadata.end_line >= result[k].metadata.start_line
        /\ \A k \in 2..Len(result) :
              result[k].metadata.start_line > result[k - 1].metadata.end_line

\* C12: the single chunk of an unsplit function has id func_<name>; the
\* N-th chunk emitted for a split function has id func_<name>_part<N>, and
\* N is its part metadata value.
C12_ChunkIdsFollowEmission ==
    Chunking =>
        \A i \in FunctionDefs :
            LET cs == ChunksNamed(tree[i].name)
            IN  IF IsLarge(i)
                THEN \A n \in 1..Len(cs) :
                        /\ cs[n].id = PartId(tree[i].name, n)
                        /\ cs[n].metadata.part = n
                ELSE \A n \in 1..Len(cs) : cs[n].id = FuncId(tree[i].name)

\* f split into three chunks, followed by the unsplit g
C12_Witness ==
    /\ Chunking
    /\ Len(result) = 4
    /\ result[3].id = PartId("f", 3) /\ result[3].metadata.part = 3
    /\ result[4].id = FuncId("g")

-----------------------------------------------------------------------------
(* Construction: PythonCodeAnalyzer(code).  A source text is given by its  *)
(* line view and by what ast.parse makes of it: a tree, or an exception    *)
(* with its diagnostic.                                                    *)

Parsed(t) == [raises |-> "", diagnostic |-> "", tree |-> t]
ParseFails(exc, diagnostic) == [raises |-> exc, diagnostic |-> diagnostic, tree |-> <<>>]

Text(ls, outcome) == [lines |-> ls, parse |-> outcome]

\* the empty text: "".split("\n") is [""], and the module has no statement
EmptyText == Text(<<Line(1, 0, FALSE)>>, Parsed(<<>>))

\* texts that parse: the empty text and three-function files
ValidTexts ==
    {EmptyText} \cup
    {Text(DepsLines, Parsed(DepsTree(<<"helper", "process", "main">>, f[1], f[2], f[3], f[4]))) :
        f \in {"flat", "nested"} \X SmallCallSets \X SmallCallSets \X SmallCallSets}

\* texts ast.parse rejects: "def broken function() invalid syntax", a body
\* that is not indented, an attribute chain too deep for the parser
InvalidTexts ==
    { Text(<<Line(1, 36, FALSE)>>, ParseFails("SyntaxError", "expected '('")),
      Text(<<Line(1, 8, FALSE), Line(2, 8, FALSE)>>,
           ParseFails("IndentationError", "expected an indented block")),
      Text(<<Line(1, 10001, FALSE)>>,
           ParseFails("RecursionError", "maximum recursion depth exceeded")) }

SourceTexts == ValidTexts \cup InvalidTexts

\* except SyntaxError, line 38: the classes the handler catches
IsSyntaxError(exc) == exc \in {"SyntaxError", "IndentationError", "TabError"}

\* __init__(code): the fields assigned and the exception raised, if any
AnalyzerInit(code) ==
    LET outcome == code.parse
    IN  IF outcome.raises = ""
        THEN [lines |-> code.lines, tree |-> outcome.tree, raised |-> <<>>]
        ELSE IF IsSyntaxError(outcome.raises)
        THEN [lines |-> code.lines, tree |-> <<>>,
              raised |-> <<[type |-> "ValueError",
                            message |-> <<"Invalid Python code: ", outcome.diagnostic>>]>>]
        ELSE [lines |-> code.lines, tree |-> <<>>,
              raised |-> <<[type |-> outcome.raises,
                            message |-> <<outcome.diagnostic>>]>>]

\* no instance yet
NoInstance == [op |-> "new", names |-> {}, depth |-> 0, max_tokens |-> 0]

InitParser ==
    /\ lines = <<>>
    /\ tree = <<>>
    /\ call = NoInstance
    /\ result = <<>>
    /\ locals = <<>>

\* PythonCodeAnalyzer(code) runs __init__ on a fresh object
Construct ==
    /\ call.op = "new"
    /\ \E code \in SourceTexts :
        LET self == AnalyzerInit(code)
        IN  /\ lines' = self.lines
            /\ tree' = self.tree
            /\ call' = [op |-> "__init__", names |-> {}, depth |-> 0, max_tokens |-> 0]
            /\ result' = self.raised
            /\ locals' = [code |-> code]

\* __init__ returns: the caller holds the instance, or the exception
\* propagates and the object under construction is dropped
ReturnInit ==
    /\ call.op = "__init__"
    /\ IF result = <<>>
       THEN call' = NoCall /\ UNCHANGED <<lines, tree>>
       ELSE call' = NoInstance /\ lines' = <<>> /\ tree' = <<>>
    /\ result' = <<>>
    /\ locals' = <<>>

\* the invalid-source error carrying the parser's diagnostic
InvalidSourceError(diagnostic) ==
    [type |-> "ValueError", message |-> <<"Invalid Python code: ", diagnostic>>]

\* C13: construction on a text that does not parse fails with the
\* invalid-source error carrying the parser diagnostic; construction on a
\* text that parses does not fail; and an instance on which an operation
\* can be called was built from a text that parses.
C13_ConstructionFailsOnInvalidText ==
    /\ call.op = "__init__" =>
          IF locals.code.parse.raises # ""
          THEN result = <<InvalidSourceError(locals.code.parse.diagnostic)>>
          ELSE result = <<>>
    /\ call.op = "none" =>
          \E code \in ValidTexts : lines = code.lines /\ tree = code.parse.tree

-----------------------------------------------------------------------------
(* Requests that match nothing *)

\* the names that function definitions of the file bear
DefinedNames == {tree[i].name : i \in FunctionDefs}

\* C14: an extraction whose names match no function definition returns the
\* empty mapping; an expansion keeps the seeds that name no defined
\* function in the expanded set and adds no neighbours for them: the set is
\* those seeds together with what the other seeds expand to.
C14_NoMatchIsEmptyNotError ==
    /\ (call.op = "extract_functions" /\ call.names \cap DefinedNames = {}) =>
          result = <<>>
    /\ Expanding =>
          LET undefined == call.names \ DefinedNames
              defined   == call.names \cap DefinedNames
          IN  /\ undefined \subseteq locals.to_extract
              /\ NextLevel(locals.call_graph, undefined) = {}
              /\ locals.to_extract =
                    undefined \cup
                    ExpandLoop(locals.call_graph,
                               [to_extract |-> defined, current_level |-> defined,
                                levels |-> <<defined>>], call.depth).to_extract
              /\ defined = {} => (locals.to_extract = call.names /\ result = <<>>)

\* the undefined seed print expanded two rounds on a file whose functions
\* do call one another, and print too
C14_Witness ==
    /\ Expanding /\ call.names = {"print"} /\ call.depth = 2
    /\ locals.to_extract = {"print"} /\ result = <<>>
    /\ CallGraphGet(locals.call_graph, "main") = {"process", "print"}

-----------------------------------------------------------------------------
(* The files of the signature family: one function of three lines, named   *)
(* main, whose signature declares parameters of any kind:                  *)
(*    def main(p, /, a, b, *args, k, **kwargs)                             *)

ParameterLists ==
    {<<>>, <<"p">>} \X {<<>>, <<"a">>, <<"a", "b">>, <<"b", "a">>}
        \X {<<>>, <<"args">>} \X {<<>>, <<"k">>} \X {<<>>, <<"kwargs">>}

ArgsTree(ps) ==
    << DefNodeWith(DefNode("FunctionDef", "main", 1, 0, 1, 3, <<>>, "doc", {}),
                   FullArguments(ps[1], ps[2], ps[3], ps[4], ps[5])) >>

InitArgs ==
    /\ \E ps \in ParameterLists : tree = ArgsTree(ps)
    /\ lines = [n \in 1..3 |-> Line(n, 16, FALSE)]
    /\ call = NoCall
    /\ result = <<>>
    /\ locals = <<>>

NextArgs == CallExtractFunctions \/ Return

SpecArgs == InitArgs /\ [][NextArgs]_vars

\* C15 as claimed: the args of an extracted FunctionInfo are all the
\* declared parameter names of the function, *args and **kwargs included,
\* in declaration order.
C15_ArgsAreAllParameters ==
    call.op = "extract_functions" =>
        \A e \in Range(result) :
            \E i \in FunctionDefs :
                /\ tree[i].name = e.key
                /\ e.value.args = DeclaredParameters(tree[i])

\* C15 as amended: the args are the names of the positional-or-keyword
\* parameters (those declared before any * and after any /), in declaration
\* order; positional-only, *args, keyword-only and **kwargs names are left
\* out.
C15_ArgsArePlainParameters ==
    call.op = "extract_functions" =>
        \A e \in Range(result) :
            \E i \in FunctionDefs :
                /\ tree[i].name = e.key
                /\ e.value.args = tree[i].args.args
                /\ Range(e.value.args) \cap
                      Range(tree[i].args.posonlyargs \o tree[i].args.vararg
                            \o tree[i].args.kwonlyargs \o tree[i].args.kwarg) = {}

\* def main(b, a, *args, **kwargs) extracted: args is [b, a]
C15_Witness ==
    /\ call.op = "extract_functions" /\ Len(result) = 1
    /\ DeclaredParameters(tree[1]) = <<"b", "a", "args", "kwargs">>
    /\ result[1].value.args = <<"b", "a">>

-----------------------------------------------------------------------------
(* get_file_outline and _extract_imports.  The outline is kept as the      *)
(* sequence of its lines (the list handed to "\n".join), and a line as the *)
(* tuple of the pieces its f-string is made of.                            *)

\* the most import lines the outline shows, line 104
ImportCap == 10

NoModule == "None"

\* node.module or ""
ModuleOrEmpty(module) == IF module = NoModule THEN "" ELSE module

\* f"import {alias.name}" for every alias of an Import node, lines 322-323
ImportLines(names) == [k \in 1..Len(names) |-> <<"import ", names[k]>>]

\* f"from {module} import {names}", lines 325-327 (the names stay a list:
\* ", ".join of identifiers loses nothing)
ImportFromLine(node) == <<"from ", ModuleOrEmpty(node.module), " import ", node.names>>

RECURSIVE ExtractImportsLoop(_, _, _)
ExtractImportsLoop(t, walk, imports) ==
    IF Len(walk) = 0 THEN imports
    ELSE LET node == t[Head(walk)]
         IN  ExtractImportsLoop(t, Tail(walk),
                 IF node.type = "Import" THEN imports \o ImportLines(node.names)
                 ELSE IF node.type = "ImportFrom" THEN Append(imports, ImportFromLine(node))
                 ELSE imports)

\* _extract_imports()
ExtractImports(t) == ExtractImportsLoop(t, Walk(t), <<>>)

\* f"# ... and {len(imports) - 10} more imports", line 106
MoreImportsLine(n) == <<"# ... and ", n, " more imports">>

\* f"def {node.name}({', '.join(args)}): ...", lines 113-114
SignatureLine(node) == <<"def ", node.name, "(", node.args.args, "): ...">>

\* a variant that shows one import more than the cap
ImportsSummaryOneMore(imports) ==
    IF Len(imports) = 0 THEN <<>>
    ELSE <<<<"# Imports">>>>
         \o SubSeq(imports, 1, IF Len(imports) < ImportCap + 1 THEN Len(imports)
                               ELSE ImportCap + 1)
         \o (IF Len(imports) > ImportCap
             THEN <<MoreImportsLine(Len(imports) - ImportCap)>> ELSE <<>>)
         \o <<<<"">>>>

\* lines 102-107: the imports summary
ImportsSummary(imports) ==
    IF Len(imports) = 0 THEN <<>>
    ELSE <<<<"# Imports">>>>
         \o SubSeq(imports, 1, IF Len(imports) < ImportCap THEN Len(imports)
                               ELSE ImportCap)
         \o (IF Len(imports) > ImportCap
             THEN <<MoreImportsLine(Len(imports) - ImportCap)>> ELSE <<>>)
         \o <<<<"">>>>

RECURSIVE SignaturesLoop(_, _, _)
\* lines 111-115
SignaturesLoop(t, walk, outline_parts) ==
    IF Len(walk) = 0 THEN outline_parts
    ELSE LET node == t[Head(walk)]
         IN  SignaturesLoop(t, Tail(walk),
                 IF IsFunctionDef(node) THEN Append(outline_parts, SignatureLine(node))
                 ELSE outline_parts)

\* get_file_outline()
GetFileOutline(t) ==
    SignaturesLoop(t, Walk(t),
                   Append(ImportsSummary(ExtractImports(t)), <<"# Functions">>))

-----------------------------------------------------------------------------
(* The files of the outline family.  A file is written as the sequence of  *)
(* its top-level statements; a def or class holds the statements of its    *)
(* body, and a def ends with a return line.  BuildNodes numbers the lines  *)
(* and lays the nodes out in source order.                                 *)

\* the most single-name import statements at the head of a file
MaxImports == 11

Imp(names) ==
    [s |-> "Import", name |-> "", module |-> NoModule, names |-> names,
     args |-> <<>>, body |-> <<>>]
From(module, names) ==
    [s |-> "ImportFrom", name |-> "", module |-> module, names |-> names,
     args |-> <<>>, body |-> <<>>]
Def(type, name, a, body) ==
    [s |-> type, name |-> name, module |-> NoModule, names |-> <<>>,
     args |-> a, body |-> body]
Class(name, body) ==
    [s |-> "ClassDef", name |-> name, module |-> NoModule, names |-> <<>>,
     args |-> <<>>, body |-> body]

RECURSIVE BuildNodes(_, _, _, _, _)
\* the nodes of the statements items, which stand at the given depth under
\* node parent, after base nodes, from the given line on
BuildNodes(items, depth, parent, base, line) ==
    IF Len(items) = 0 THEN [nodes |-> <<>>, line |-> line]
    ELSE LET it    == Head(items)
             me    == base + 1
             block == it.s \in {"FunctionDef", "AsyncFunctionDef", "ClassDef"}
             inner == IF block
                      THEN BuildNodes(it.body, depth + 1, me, me, line + 1)
                      ELSE [nodes |-> <<>>, line |-> line + 1]
             last  == IF it.s \in {"FunctionDef", "AsyncFunctionDef"}
                      THEN inner.line ELSE inner.line - 1
             node  == [type |-> it.s, name |-> it.name, depth |-> depth,
                       parent |-> parent, lineno |-> line, end_lineno |-> last,
                       args |-> Arguments(it.args), docstring |-> NoDocstring,
                       calls |-> {}, module |-> it.module, names |-> it.names]
             rest  == BuildNodes(Tail(items), depth, parent,
                                 base + 1 + Len(inner.nodes), last + 1)
         IN  [nodes |-> <<node>> \o inner.nodes \o rest.nodes, line |-> rest.line]

FileTree(items) == BuildNodes(items, 1, 0, 0, 1).nodes
FileLines(items) == [n \in 1..(BuildNodes(items, 1, 0, 0, 1).line - 1) |-> Line(n, 16, FALSE)]

\* import m1 ... import mn; import a1, .., ak (k = 0: no such statement);
\* from pathlib import n1, n2 or from . import n1
HeadImports(n, k, from) ==
    [i \in 1..n |-> Imp(<< <<"m", i>> >>)]
    \o (IF k = 0 THEN <<>> ELSE <<Imp([j \in 1..k |-> <<"a", j>>])>>)
    \o (IF from = "pathlib" THEN <<From("pathlib", << <<"n", 1>>, <<"n", 2>> >>)>>
        ELSE IF from = "relative" THEN <<From(NoModule, << <<"n", 1>> >>)>>
        ELSE <<>>)

OutlineShapes == {"none", "flat", "method", "nested", "local_import", "async"}

\* the definitions of a file: func_a(x, y) and func_b(), the first of them
\* replaced by a class with a method, given a nested function or a local
\* import, or written async
Definitions(shape) ==
    IF shape = "none" THEN <<>>
    ELSE << IF shape = "method"
            THEN Class("MyClass", <<Def("FunctionDef", "method", <<"self">>, <<>>)>>)
            ELSE IF shape = "nested"
            THEN Def("FunctionDef", "func_a", <<"x", "y">>,
                     <<Def("FunctionDef", "inner", <<"z">>, <<>>)>>)
            ELSE IF shape = "local_import"
            THEN Def("FunctionDef", "func_a", <<"x", "y">>, <<Imp(<< <<"m", 0>> >>)>>)
            ELSE IF shape = "async"
            THEN Def("AsyncFunctionDef", "func_a", <<"x", "y">>, <<>>)
            ELSE Def("FunctionDef", "func_a", <<"x", "y">>, <<>>),
            Def("FunctionDef", "func_b", <<>>, <<>>) >>

\* the imports at the head of the file, or after its definitions
OutlineFiles ==
    {HeadImports(f[1], f[2], f[3]) \o Definitions(f[4]) :
        f \in (0..MaxImports) \X {0, 2, 3} \X {"", "pathlib", "relative"} \X OutlineShapes}
    \cup
    {Definitions(f[2]) \o HeadImports(f[1], 0, "") :
        f \in (0..MaxImports) \X OutlineShapes}

InitOutline ==
    /\ \E items \in OutlineFiles :
          /\ tree = FileTree(items)
          /\ lines = FileLines(items)
    /\ call = NoCall
    /\ result = <<>>
    /\ locals = <<>>

\* analyzer.get_file_outline()
CallGetFileOutline ==
    /\ call.op = "none"
    /\ call' = [op |-> "get_file_outline", names |-> {}, depth |-> 0, max_tokens |-> 0]
    /\ result' = GetFileOutline(tree)
    /\ locals' = <<>>
    /\ UNCHANGED <<lines, tree>>

NextParser ==
    \/ Construct
    \/ ReturnInit
    \/ CallExtractFunctions
    \/ CallExtractFunctionsWithDependencies
    \/ CallGetFileOutline
    \/ CallChunkByFunction
    \/ Return

SpecParser == InitParser /\ [][NextParser]_vars

NextOutline == CallGetFileOutline \/ Return

SpecOutline == InitOutline /\ [][NextOutline]_vars

-----------------------------------------------------------------------------
(* Properties of the outline *)

Outlining == call.op = "get_file_outline"

IsImportNode(node) == node.type \in {"Import", "ImportFrom"}

\* the import statements of the file, in the order of the traversal
ImportStatements == SelectSeq(Walk(tree), LAMBDA i : IsImportNode(tree[i]))

\* the lines one import statement is shown as
StatementLines(node) ==
    IF node.type = "Import"
    THEN [k \in 1..Len(node.names) |-> <<"import ", node.names[k]>>]
    ELSE << <<"from ", ModuleOrEmpty(node.module), " import ", node.names>> >>

RECURSIVE LinesOfStatements(_)
LinesOfStatements(statements) ==
    IF Len(statements) = 0 THEN <<>>
    ELSE StatementLines(tree[Head(statements)]) \o LinesOfStatements(Tail(statements))

\* the import lines and the truncation notes of the outline returned
ListedImports == SelectSeq(result, LAMBDA l : l[1] \in {"import ", "from "})
TruncationNotes == SelectSeq(result, LAMBDA l : l[1] = "# ... and ")

\* the first n elements of a sequence, all of them if it has fewer
FirstOf(seq, n) == SubSeq(seq, 1, IF Len(seq) < n THEN Len(seq) ELSE n)

-----------------------------------------------------------------------------
(* format_functions_for_llm.  The text returned is kept as the sequence of *)
(* its parts (the list handed to "\n".join); a part is the literal text of *)
(* its f-string with the values put into it.  The backquote of the source *)
(* is written ' here.                                                      *)

Part(s, v) == [s |-> s, v |-> v]

\* the text returned for an empty mapping, line 343
NoFunctionsExtracted == <<Part("No functions extracted.", <<>>)>>

\* lines 347-349
HeaderPart(func_info) ==
    Part("### Function: '{}' (Lines {}-{})",
         <<func_info.name, func_info.start_line, func_info.end_line>>)

\* a variant that joins the arguments whether there are any or not
ArgumentsPartJoinOnly(func_info) ==
    Part("**Arguments:** {}", func_info.args)

\* lines 350-352: ', '.join(args), or 'None'
ArgumentsPart(func_info) ==
    Part("**Arguments:** {}",
         IF Len(func_info.args) > 0 THEN func_info.args ELSE <<"None">>)

\* lines 353-354
DocstringParts(func_info) ==
    IF Truthy(func_info.docstring)
    THEN <<Part("**Docstring:** {}", <<func_info.docstring>>)>>
    ELSE <<>>

\* lines 355-357
CodeParts(func_info) ==
    << Part("\n'''python", <<>>), Part("{}", func_info.code), Part("'''\n", <<>>) >>

RECURSIVE FormatLoop(_, _)
\* for name, func_info in functions.items()
FormatLoop(functions, parts) ==
    IF Len(functions) = 0 THEN parts
    ELSE LET func_info == Head(functions).value
         IN  FormatLoop(Tail(functions),
                        parts \o <<HeaderPart(func_info), ArgumentsPart(func_info)>>
                              \o DocstringParts(func_info) \o CodeParts(func_info))

\* format_functions_for_llm(functions)
FormatFunctionsForLlm(functions) ==
    IF Len(functions) = 0 THEN NoFunctionsExtracted
    ELSE FormatLoop(functions, <<>>)

\* the files whose functions are formatted: those of the signature family
\* and three-function files
InitFormat ==
    \/ InitArgs
    \/ /\ \E f \in {"flat", "nested"} \X SmallCallSets :
              tree = DepsTree(<<"helper", "process", "main">>, f[1], {}, f[2], {"process"})
       /\ lines = DepsLines
       /\ call = NoCall
       /\ result = <<>>
       /\ locals = <<>>

\* PythonCodeAnalyzer.format_functions_for_llm(analyzer.extract_functions(names))
CallFormatFunctionsForLlm ==
    /\ call.op = "none"
    /\ \E function_names \in SUBSET AskedNames :
        /\ call' = [op |-> "format_functions_for_llm", names |-> function_names,
                    depth |-> 0, max_tokens |-> 0]
        /\ locals' = [functions |-> ExtractFunctions(tree, lines, function_names)]
        /\ result' = FormatFunctionsForLlm(locals'.functions)
        /\ UNCHANGED <<lines, tree>>

NextFormat == CallFormatFunctionsForLlm \/ Return

SpecFormat == InitFormat /\ [][NextFormat]_vars

Formatting == call.op = "format_functions_for_llm"

\* C17: the format of the empty mapping is the sentinel; the format of a
\* non-empty mapping is not, and holds for every function of the mapping
\* the header with its name and line span, right after it the arguments
\* line (with the marker None when there are no arguments), and after that
\* the fenced block of its verbatim code.
C17_FormatSentinelOrBlocks ==
    Formatting =>
        IF locals.functions = <<>>
        THEN result = <<Part("No functions extracted.", <<>>)>>
        ELSE /\ result # <<Part("No functions extracted.", <<>>)>>
             /\ \A e \in Range(locals.functions) :
                   \E k \in 1..Len(result), j \in 1..Len(result) :
                       /\ result[k] = Part("### Function: '{}' (Lines {}-{})",
                                           <<e.value.name, e.value.start_line,
                                             e.value.end_line>>)
                       /\ k + 1 < j /\ j + 2 <= Len(result)
                       /\ result[k + 1] =
                             Part("**Arguments:** {}",
                                  IF e.value.args = <<>> THEN <<"None">>
                                  ELSE e.value.args)
                       /\ \A i \in (k + 1)..j : result[i].s # "### Function: '{}' (Lines {}-{})"
                       /\ result[j] = Part("\n'''python", <<>>)
                       /\ result[j + 1] = Part("{}", e.value.code)
                       /\ result[j + 2] = Part("'''\n", <<>>)

\* a function without arguments and with a docstring, formatted
C17_Witness ==
    /\ Formatting /\ Len(locals.functions) = 1
    /\ locals.functions[1].value.args = <<>>
    /\ Truthy(locals.functions[1].value.docstring)
    /\ Len(result) = 6
    /\ result[2] = Part("**Arguments:** {}", <<"None">>)

-----------------------------------------------------------------------------
(* Properties of the call graph *)

\* the function definitions named name, in the order of the traversal
DefsNamed(name) ==
    SelectSeq(Walk(tree), LAMBDA i : IsFunctionDef(tree[i]) /\ tree[i].name = name)

\* the definition a name stands for in a mapping keyed by name
LastDefNamed(name) == DefsNamed(name)[Len(DefsNamed(name))]

\* the Call nodes in the sub-tree of definition i
CallsWithin(i) == UNION {tree[j].calls : j \in SubTree(tree, i)}

\* C18: the call graph has a key for every function definition of the file,
\* nested ones included; the callee set kept for a function is exactly the
\* identifiers of the bare-identifier calls and the member names of the
\* attribute calls in its sub-tree; the receiver of an attribute call is
\* not added, and a function that calls itself is its own callee.
C18_CallGraphCoversAndIsExact ==
    Expanding =>
        LET g == locals.call_graph
        IN  /\ DefinedNames \subseteq DictKeys(g)
            /\ \A name \in DefinedNames :
                  LET i == LastDefNamed(name)
                      callees == DictGet(g, name)
                  IN  /\ callees = {c.id : c \in {d \in CallsWithin(i) : d.func = "Name"}}
                                   \cup
                                   {c.attr : c \in {d \in CallsWithin(i) : d.func = "Attribute"}}
                      /\ \A c \in CallsWithin(i) :
                            (c.func = "Attribute" /\ c.value \notin CallNames) =>
                                c.value \notin callees
                      /\ (\E c \in tree[i].calls : name \in {c.id, c.attr}) =>
                            name \in callees

\* main nested in process and calling itself as self.main(): main is its own
\* callee, and a callee of process through the sub-tree
C18_Witness ==
    /\ Expanding
    /\ Len(tree) = 3 /\ tree[3].parent = 2 /\ tree[3].name = "main"
    /\ tree[3].calls = {NameCall("main")}
    /\ tree[2].calls = {NameCall("helper")}
    /\ DictGet(locals.call_graph, "main") = {"main"}
    /\ DictGet(locals.call_graph, "process") = {"helper", "main"}

\* the function definitions of the file in declaration order: by the line
\* their def stands on
DefsInSourceOrder ==
    [k \in 1..Cardinality(FunctionDefs) |->
        CHOOSE i \in FunctionDefs :
            Cardinality({j \in FunctionDefs : tree[j].lineno < tree[i].lineno}) = k - 1]

\* the signature lines of the outline returned
ListedSignatures == SelectSeq(result, LAMBDA l : l[1] = "def ")

\* C19: the outline lists exactly one signature line per function
\* definition of the file, in source declaration order: a function declared
\* earlier in the text comes before one declared later, methods and nested
\* functions included.
C19_SignaturesInDeclarationOrder ==
    Outlining =>
        ListedSignatures =
            [k \in 1..Len(DefsInSourceOrder) |-> SignatureLine(tree[DefsInSourceOrder[k]])]

-----------------------------------------------------------------------------
(* A session on one instance: any sequence of extract, expand, outline and *)
(* chunk calls, a call being made again with the same parameters at will.  *)

InitSession == InitFormat \/ InitChunk \/ InitOutline

Operations ==
    {"extract_functions", "extract_functions_with_dependencies",
     "get_file_outline", "chunk_by_function"}

\* what the call c returns on an instance with tree t and lines ls
ResultOfCall(c, t, ls) ==
    CASE c.op = "extract_functions" -> ExtractFunctions(t, ls, c.names)
      [] c.op = "extract_functions_with_dependencies" ->
            ExtractFunctionsWithDependencies(t, ls, c.names, c.depth)
      [] c.op = "get_file_outline" -> GetFileOutline(t)
      [] c.op = "chunk_by_function" -> ChunkByFunction(t, ls, c.max_tokens)

\* the caller, holding what its last call returned, makes the same call
\* with the same parameters again
CallAgain ==
    /\ call.op \in Operations
    /\ call' = call
    /\ result' = ResultOfCall(call, tree, lines)
    /\ locals' = IF call.op = "extract_functions_with_dependencies"
                 THEN Expand(tree, call.names, call.depth) ELSE <<>>
    /\ UNCHANGED <<lines, tree>>

NextSession ==
    \/ CallExtractFunctions
    \/ CallExtractFunctionsWithDependencies
    \/ CallGetFileOutline
    \/ CallChunkByFunction
    \/ CallAgain
    \/ Return

SpecSession == InitSession /\ [][NextSession]_vars

-----------------------------------------------------------------------------
(* Properties of the expansion loop *)

\* the names in current_level at the start of round k (levels[1] is the
\* seed set) or in any earlier one
VisitedBefore(k) == UNION {locals.levels[j] : j \in 1..(k - 1)}

\* C21: in every round the level computed is the union of the call-graph
\* neighbours of the current level minus every name of an earlier level,
\* so that no name already visited is placed in a later level again.
C21_FrontierExcludesVisited ==
    Expanding =>
        \A k \in 2..Len(locals.levels) :
            /\ locals.levels[k] =
                  NextLevel(locals.call_graph, locals.levels[k - 1]) \ VisitedBefore(k)
            /\ locals.levels[k] \cap VisitedBefore(k) = {}

\* C22: the loop runs exactly depth rounds on every call graph: each round
\* computes the neighbours of the level before it, also when that level is
\* empty or was seen before, and no round runs after the depth-th although
\* unvisited neighbours remain.
C22_ExactlyDepthRounds ==
    Expanding =>
        /\ Len(locals.levels) = call.depth + 1
        /\ locals.levels[1] = call.names
        /\ \A k \in 2..Len(locals.levels) :
              locals.levels[k] = NextLevel(locals.call_graph, locals.levels[k - 1])
        /\ locals.current_level = locals.levels[call.depth + 1]
        /\ locals.to_extract = UNION {locals.levels[k] : k \in 1..(call.depth + 1)}

\* depth 3 from main, which calls only the undefined print: the level is
\* empty from round 2 on and three rounds run all the same
C22_Witness ==
    /\ Expanding /\ call.depth = 3 /\ call.names = {"main"}
    /\ Len(locals.levels) = 4
    /\ locals.levels[2] = {"print"} /\ locals.levels[3] = {} /\ locals.levels[4] = {}

-----------------------------------------------------------------------------
(* Properties of the splitting loop *)

\* the buffer the splitting of function i starts with (line 201): the
\* signature line and the docstring lines found by the scan
Preamble(i) ==
    LET code == InfoOf(i).code
    IN  <<code[1]>> \o ExtractDocstringLines(InfoOf(i), code).docstring_lines

\* C23: no chunk emitted for a split function consists of the signature
\* line alone, or of the signature line and the docstring lines alone with
\* no body line after them.
C23_ChunkHoldsMoreThanPreamble ==
    Chunking =>
        \A i \in FunctionDefs :
            IsLarge(i) =>
                LET cs == ChunksNamed(tree[i].name)
                IN  \A k \in 1..Len(cs) :
                        /\ Len(cs[k].text) > 1
                        /\ cs[k].text # Preamble(i)

\* the marker lines of a chunk's text
MarkerLines(text) == SelectSeq(text, LAMBDA l : l.marker # 0)

\* C24: every chunk of a split function but the last was closed by a line
\* that did not fit: that line is not in the chunk closed, and the text of
\* the next chunk is the signature line, one marker line, then that line
\* as its first body line, with no other marker line; the first chunk has
\* no marker line.
C24_ResumedChunkLayout ==
    Chunking =>
        \A i \in FunctionDefs :
            IsLarge(i) =>
                LET cs == ChunksNamed(tree[i].name)
                IN  /\ Len(cs) >= 1 => MarkerLines(cs[1].text) = <<>>
                    /\ \A k \in 2..Len(cs) :
                          /\ Len(cs[k].text) >= 3
                          /\ cs[k].text[1] = lines[tree[i].lineno]
                          /\ cs[k].text[2].marker # 0
                          /\ Len(MarkerLines(cs[k].text)) = 1
                          /\ cs[k].text[3] \in Range(InfoOf(i).code)
                          /\ cs[k].text[3] \notin Range(cs[k - 1].text)

\* C25: a function is split at line boundaries only: the text of every
\* chunk is the whole signature line, also when that line alone exceeds
\* max_tokens, followed by whole lines of the function and marker lines,
\* never a part of a line.
C25_SplitsAtLineBoundaries ==
    Chunking =>
        \A i \in FunctionDefs :
            LET cs == ChunksNamed(tree[i].name)
                code == InfoOf(i).code
            IN  \A k \in 1..Len(cs) :
                    /\ cs[k].text[1] = code[1]
                    /\ \A j \in 2..Len(cs[k].text) :
                          \/ cs[k].text[j] \in Range(code)
                          \/ /\ cs[k].text[j].marker # 0
                             /\ cs[k].text[j] = MarkerLine(cs[k].text[j].marker)

\* the signature line of f alone exceeds max_tokens and f is split into
\* three chunks, each starting with that line
C25_Witness ==
    /\ Chunking
    /\ EstimatedTokens(<<lines[tree[1].lineno]>>) > call.max_tokens
    /\ Len(ChunksNamed("f")) >= 3
    /\ \A k \in 1..Len(ChunksNamed("f")) :
          ChunksNamed("f")[k].text[1] = lines[tree[1].lineno]

-----------------------------------------------------------------------------
(* The files of the duplicate-name family: three definitions named main,   *)
(* helper or main_part1, any two or all three of them alike, at top level, *)
(* the third nested in the second, or the second nested in the first.      *)

DupNames == {"main", "helper", "main_part1"}

DupLayouts == {"flat", "nested", "inner"}

DupCallSets == {{}, {"helper"}}

\* inner: def names[1] of four lines holding def names[2], then def names[3]
DupTree(names, layout, c1, c2, c3) ==
    IF layout = "inner"
    THEN << DefNode("FunctionDef", names[1], 1, 0, 1, 4, <<"x">>, NoDocstring,
                    CallsOf("flat", c1)),
            DefNode("FunctionDef", names[2], 2, 1, 2, 3, <<"y">>, NoDocstring,
                    CallsOf("flat", c2)),
            DefNode("FunctionDef", names[3], 1, 0, 5, 6, <<"z">>, NoDocstring,
                    CallsOf("flat", c3)) >>
    ELSE DepsTree(names, layout, c1, c2, c3)

DupFiles ==
    {DupTree(f[1], f[2], f[3], f[4], f[5]) :
        f \in [1..3 -> DupNames] \X DupLayouts \X DupCallSets \X DupCallSets \X DupCallSets}

InitDup ==
    /\ tree \in DupFiles
    /\ lines = DepsLines
    /\ call = NoCall
    /\ result = <<>>
    /\ locals = <<>>

NextDup ==
    \/ CallExtractFunctions
    \/ CallExtractFunctionsWithDependencies
    \/ CallChunkByFunction
    \/ Return

SpecDup == InitDup /\ [][NextDup]_vars

\* the entries of a mapping under one key
EntriesOf(d, k) == SelectSeq(d, LAMBDA e : e.key = k)

\* C26: where several definitions share a name, the mapping returned by
\* extraction holds one record for the name, that of the definition the
\* traversal visits last, and the call graph holds for the name the callee
\* set of that definition alone.
C26_LastVisitedDefinitionWins ==
    /\ (call.op = "extract_functions" \/ Expanding) =>
          \A e \in Range(result) :
              /\ Len(EntriesOf(result, e.key)) = 1
              /\ e.value = ParseFunctionNode(tree[LastDefNamed(e.key)], lines)
    /\ Expanding =>
          \A name \in DefinedNames :
              /\ Len(EntriesOf(locals.call_graph, name)) = 1
              /\ DictGet(locals.call_graph, name) =
                    UNION {CalledByCall(c) : c \in CallsWithin(LastDefNamed(name))}

\* main is defined inside the first function, calling nothing, and again
\* at top level after it, calling helper: the traversal visits the inner
\* one last, and its record and its empty callee set are the ones kept
C26_Witness ==
    /\ Expanding /\ call.names = {"main"} /\ call.depth = 0
    /\ tree[2].name = "main" /\ tree[3].name = "main" /\ tree[2].parent = 1
    /\ tree[2].calls = {} /\ tree[3].calls = {NameCall("helper")}
    /\ Len(result) = 1
    /\ result[1].value.start_line = tree[2].lineno
    /\ DictGet(locals.call_graph, "main") = {}

-----------------------------------------------------------------------------
(* Properties of the sequence of chunks *)

\* C27: for every positive max_tokens the sequence returned holds at least
\* one chunk for every function definition of the file, a function written
\* on one line whose estimated size exceeds max_tokens included.
C27_NoFunctionDropped ==
    Chunking =>
        \A i \in FunctionDefs : Len(ChunksNamed(tree[i].name)) >= 1

\* C28: when max_tokens holds the signature line, the docstring preamble,
\* the continuation marker and any one line of a function together, every
\* chunk emitted for that function when it is split has estimated size at
\* most max_tokens.
C28_RoomyBudgetChunksFit ==
    Chunking =>
        \A i \in FunctionDefs :
            (IsLarge(i) /\ RoomyFor(i, call.max_tokens)) =>
                LET cs == ChunksNamed(tree[i].name)
                IN  \A k \in 1..Len(cs) :
                        EstimatedTokens(cs[k].text) <= call.max_tokens

\* C29: the ids of the chunks of one result are pairwise distinct, also
\* when two definitions of the file share a name.
C29_ChunkIdsDistinct ==
    Chunking =>
        \A j, k \in 1..Len(result) : result[j].id = result[k].id => j = k

\* C30: for a split function the first part starts on the function's first
\* line and the last part ends on its last line; in every later part the
\* number written in the marker and the part's start_line are both the
\* number, in the file, of the line that follows the marker.
C30_LineBookkeepingMatchesSource ==
    Chunking =>
        \A i \in FunctionDefs :
            IsLarge(i) =>
                LET cs == ChunksNamed(tree[i].name)
                IN  /\ Len(cs) >= 1 =>
                          /\ cs[1].metadata.start_line = tree[i].lineno
                          /\ cs[Len(cs)].metadata.end_line = tree[i].end_lineno
                    /\ \A k \in 2..Len(cs) :
                          /\ Len(cs[k].text) >= 3
                          /\ cs[k].text[2].marker = cs[k].text[3].no
                          /\ cs[k].metadata.start_line = cs[k].text[3].no

=============================================================================
